---- MODULE Spec2Model ----
(***************************************************************************)
(* A model of genshi/template/eval.py: the lookup policies (LookupBase,    *)
(* LenientLookup, StrictLookup), the Undefined sentinel and its error, the *)
(* AST rewriting pass (TemplateASTTransformer, ExpressionASTTransformer)   *)
(* and the two public units Expression.evaluate and Suite.execute.         *)
(*                                                                         *)
(* Python values are records tagged by their type; the outcome of a Python *)
(* operation is a record saying whether it returned or raised.             *)
(***************************************************************************)
EXTENDS Integers, Sequences, FiniteSets, TLC

(***************************************************************************)
(* Values                                                                  *)
(***************************************************************************)

\* UNDEFINED = object(): the private "no value" sentinel (line 208).
UNDEFINED == [tag |-> "UNDEFINED"]

PyNone == [tag |-> "None"]
Str(s) == [tag |-> "str", name |-> s]
PyInt(n) == [tag |-> "int", n |-> n]
Obj(o) == [tag |-> "object", name |-> o]
Tup(es) == [tag |-> "tuple", elts |-> es]
List(es) == [tag |-> "list", elts |-> es]
Builtin(b) == [tag |-> "builtin", name |-> b]
BoundMethod(o, m) == [tag |-> "method", name |-> m, owner |-> o]

\* Undefined.__init__: an Undefined stores the name and the owner it was
\* created with.
Undefined(name, owner) == [tag |-> "Undefined", name |-> name, owner |-> owner]

Return(v) == [raised |-> FALSE, val |-> v]
Raise(e) == [raised |-> TRUE, val |-> e]

\* A native Python exception, tagged by its class and by the operation that
\* raised it, so that one error can be told from another of the same class.
Exc(class, origin) == [tag |-> class, origin |-> origin]

\* repr() of the values that can own a member.
Repr(v) ==
    CASE v.tag = "None" -> "None"
      [] v.tag = "object" /\ v.name = "dict_empty" -> "{}"
      [] v.tag = "object" -> v.name
      [] v.tag = "str" -> v.name
      [] v.tag = "int" -> IF v.n = 0 THEN "0" ELSE IF v.n = 1 THEN "1" ELSE "int"
      [] OTHER -> v.tag

\* UndefinedError.__init__: the error keeps only its message, which depends
\* on whether an owner was given.
UndefinedError(name, owner) ==
    [tag |-> "UndefinedError",
     message |-> IF owner # UNDEFINED
                   THEN <<Repr(owner), " has no member named \"", name, "\"">>
                   ELSE <<"\"", name, "\" not defined">>]

IsUndefined(v) == v.tag = "Undefined"
IsUndefinedError(v) == v.tag = "UndefinedError"

\* isinstance(key, basestring)
IsBasestring(v) == v.tag = "str"

(***************************************************************************)
(* The objects of the evaluation contexts: Python's own attribute and item *)
(* protocols on them.                                                      *)
(***************************************************************************)

\* dict_empty  {}                                  a dict
\* dict_some   {'some': 'thing', 'keys': 'shadow'} a dict with a key named
\*                                                  like a dict method
\* items       [1, 2, 3]                            a list
\* mine        MyClass(), myattr = 'Bar'            new-style, no __getitem__
\* old         an old-style instance                no __getitem__
\* props       a mapping type with two properties:  bad raises AttributeError,
\*             boom raises ZeroDivisionError; items 'bad' and 'boom' exist
\* props_empty another instance of the type of props, holding no item
\* seq         a sequence type whose __getitem__ raises IndexError for every
\*             index but 0
ObjectNames ==
    {"dict_empty", "dict_some", "items", "mine", "old", "props", "props_empty",
     "seq"}

IsDict(v) == v.tag = "object" /\ v.name \in {"dict_empty", "dict_some"}
IsProps(v) == v.tag = "object" /\ v.name \in {"props", "props_empty"}

\* The attributes defined on type(obj): what hasattr(obj.__class__, key) sees.
ClassAttrs(obj) ==
    CASE IsDict(obj) -> {"keys"}
      [] obj.tag = "object" /\ obj.name = "mine" -> {"myattr"}
      [] IsProps(obj) -> {"bad", "boom"}
      [] obj.tag = "Undefined" -> {"_name"}
      [] OTHER -> {}

\* hasattr(obj.__class__, key)
hasattr_class(obj, key) == key \in ClassAttrs(obj)

\* _die reporting the name alone.
_die_noowner(self) == Raise(UndefinedError(self.name, UNDEFINED))

\* Undefined._die: raises UndefinedError(self._name, self._owner).
_die(self) == Raise(UndefinedError(self.name, self.owner))

\* getattr(obj, key): Python's native attribute access.  Undefined defines
\* __getattr__ = _die, which Python calls only when the normal lookup fails,
\* so the slot _name is still readable.
getattr(obj, key) ==
    CASE obj.tag = "Undefined" ->
            IF key = "_name" THEN Return(Str(obj.name)) ELSE _die(obj)
      [] IsDict(obj) /\ key = "keys" -> Return(BoundMethod(obj, "keys"))
      [] obj.tag = "object" /\ obj.name = "mine" /\ key = "myattr" ->
            Return(Str("Bar"))
      [] IsProps(obj) /\ key = "bad" ->
            Raise(Exc("AttributeError", "property"))
      [] IsProps(obj) /\ key = "boom" ->
            Raise(Exc("ZeroDivisionError", "property"))
      [] OTHER -> Raise(Exc("AttributeError", "getattr"))

\* obj[key]: Python's native item access.
getitem(obj, key) ==
    CASE obj.tag = "Undefined" -> _die(obj)
      [] obj.tag = "object" /\ obj.name = "dict_some" ->
            IF key = Str("some") THEN Return(Str("thing"))
            ELSE IF key = Str("keys") THEN Return(Str("shadow"))
            ELSE Raise(Exc("KeyError", "getitem"))
      [] obj.tag = "object" /\ obj.name \in {"dict_empty", "props_empty"} ->
            Raise(Exc("KeyError", "getitem"))
      [] obj.tag = "object" /\ obj.name = "items" ->
            IF key.tag # "int" THEN Raise(Exc("TypeError", "getitem"))
            ELSE IF key.n = 0 THEN Return(PyInt(1))
            ELSE IF key.n = -1 THEN Return(PyInt(3))
            ELSE Raise(Exc("IndexError", "getitem"))
      [] obj.tag = "object" /\ obj.name = "mine" ->
            Raise(Exc("TypeError", "getitem"))
      [] obj.tag = "object" /\ obj.name = "old" ->
            Raise(Exc("AttributeError", "getitem"))
      [] obj.tag = "object" /\ obj.name = "props" ->
            IF key = Str("bad") THEN Return(Str("item_bad"))
            ELSE IF key = Str("boom") THEN Return(Str("item_boom"))
            ELSE Raise(Exc("KeyError", "getitem"))
      [] obj.tag = "object" /\ obj.name = "seq" ->
            IF key = PyInt(0) THEN Return(Str("first"))
            ELSE Raise(Exc("IndexError", "getitem"))
      [] OTHER -> Raise(Exc("TypeError", "getitem"))

(***************************************************************************)
(* Lookup policies                                                         *)
(***************************************************************************)

Policies == {"lenient", "strict"}

\* BUILTINS = __builtin__.__dict__.copy() plus Markup and Undefined.
BUILTINS ==
    [n \in {"len", "None", "Undefined"} |->
        IF n = "None" THEN PyNone ELSE Builtin(n)]

\* A strict policy that answers None for a missing reference instead of
\* raising.
undefined_quiet(cls, key, owner) ==
    IF cls = "lenient" THEN Return(Undefined(key, owner))
    ELSE Return(PyNone)

\* LenientLookup.undefined / StrictLookup.undefined
undefined(cls, key, owner) ==
    IF cls = "lenient" THEN Return(Undefined(key, owner))
    ELSE Raise(UndefinedError(key, owner))

\* dict.get(name, default) on a context mapping
dict_get(data, name, default) ==
    IF name \in DOMAIN data THEN data[name] ELSE default

\* lookup_name as it would be with None standing for "no value": an entry of
\* the context that holds None is taken to be missing.
lookup_name_none(cls, data, name) ==
    LET val == dict_get(data, name, PyNone) IN
    IF val = PyNone
      THEN LET val2 == dict_get(BUILTINS, name, UNDEFINED) IN
           IF val2 = UNDEFINED THEN undefined(cls, name, UNDEFINED)
           ELSE Return(val2)
      ELSE Return(val)

\* LookupBase.lookup_name
lookup_name(cls, data, name) ==
    LET val == dict_get(data, name, UNDEFINED) IN
    IF val = UNDEFINED
      THEN LET val2 == dict_get(BUILTINS, name, val) IN
           IF val2 = UNDEFINED THEN undefined(cls, name, UNDEFINED)
           ELSE Return(val2)
      ELSE Return(val)

\* lookup_attr without the test of the object's class: every AttributeError
\* falls back to item access.
lookup_attr_masking(cls, obj, key) ==
    LET got == getattr(obj, key) IN
    IF ~got.raised THEN got
    ELSE IF got.val.tag # "AttributeError" THEN got
    ELSE LET item == getitem(obj, Str(key)) IN
         IF ~item.raised THEN item
         ELSE IF item.val.tag \in {"KeyError", "TypeError"}
                THEN undefined(cls, key, obj)
         ELSE item

\* LookupBase.lookup_attr
lookup_attr(cls, obj, key) ==
    LET got == getattr(obj, key) IN
    IF ~got.raised THEN got
    ELSE IF got.val.tag # "AttributeError" THEN got
    ELSE IF hasattr_class(obj, key) THEN got
    ELSE LET item == getitem(obj, Str(key)) IN
         IF ~item.raised THEN item
         ELSE IF item.val.tag \in {"KeyError", "TypeError"}
                THEN undefined(cls, key, obj)
         ELSE item

\* lookup_item without the retry as attribute access.
lookup_item_noattr(cls, obj, key) ==
    LET k == IF Len(key) = 1 THEN key[1] ELSE Tup(key)
        item == getitem(obj, k)
    IN
    IF ~item.raised THEN item
    ELSE IF item.val.tag \in
              {"AttributeError", "KeyError", "IndexError", "TypeError"}
           /\ IsBasestring(k)
      THEN undefined(cls, k.name, obj)
    ELSE item

\* lookup_item that drops the owner when it reports a missing member.
lookup_item_noowner(cls, obj, key) ==
    LET k == IF Len(key) = 1 THEN key[1] ELSE Tup(key)
        item == getitem(obj, k)
    IN
    IF ~item.raised THEN item
    ELSE IF item.val.tag \in
              {"AttributeError", "KeyError", "IndexError", "TypeError"}
      THEN IF IsBasestring(k)
             THEN LET a == getattr(obj, k.name) IN
                  IF ~a.raised THEN a
                  ELSE IF a.val.tag = "AttributeError"
                         THEN undefined(cls, k.name, UNDEFINED)
                  ELSE a
             ELSE item
    ELSE item

\* LookupBase.lookup_item; key is the tuple of index values.
lookup_item(cls, obj, key) ==
    LET k == IF Len(key) = 1 THEN key[1] ELSE Tup(key)
        item == getitem(obj, k)
    IN
    IF ~item.raised THEN item
    ELSE IF item.val.tag \in
              {"AttributeError", "KeyError", "IndexError", "TypeError"}
      THEN IF IsBasestring(k)
             THEN LET a == getattr(obj, k.name) IN
                  IF ~a.raised THEN a
                  ELSE IF a.val.tag = "AttributeError"
                         THEN undefined(cls, k.name, obj)
                  ELSE a
             ELSE item
    ELSE item

(***************************************************************************)
(* Syntax trees (the _ast node classes, with their _fields)                *)
(***************************************************************************)

NameNode(id, ctx) == [type |-> "Name", id |-> id, ctx |-> ctx]
StrNode(s) == [type |-> "Str", s |-> s]
NumNode(n) == [type |-> "Num", n |-> n]
TupleNode(elts, ctx) == [type |-> "Tuple", elts |-> elts, ctx |-> ctx]
AttributeNode(value, attr, ctx) ==
    [type |-> "Attribute", value |-> value, attr |-> attr, ctx |-> ctx]
IndexNode(value) == [type |-> "Index", value |-> value]
SubscriptNode(value, slice, ctx) ==
    [type |-> "Subscript", value |-> value, slice |-> slice, ctx |-> ctx]
CallNode(func, args) == [type |-> "Call", func |-> func, args |-> args]
\* arguments(args, vararg, kwarg, defaults); vararg and kwarg are plain
\* identifiers, "" when the parameter is not there (None in Python).
ArgumentsNode(args, vararg, kwarg) ==
    [type |-> "arguments", params |-> args, vararg |-> vararg, kwarg |-> kwarg]
LambdaNode(args, body) == [type |-> "Lambda", arguments |-> args, body |-> body]
ComprehensionNode(target, iter, ifs) ==
    [type |-> "comprehension", target |-> target, iter |-> iter, ifs |-> ifs]
ListCompNode(elt, generators) ==
    [type |-> "ListComp", elt |-> elt, generators |-> generators]
GeneratorExpNode(elt, generators) ==
    [type |-> "GeneratorExp", elt |-> elt, generators |-> generators]
AssignNode(targets, value) ==
    [type |-> "Assign", targets |-> targets, value |-> value]
ExprNode(value) == [type |-> "Expr", value |-> value]
ForNode(target, iter, body) ==
    [type |-> "For", target |-> target, iter |-> iter, stmts |-> body]
FunctionDefNode(name, args, body) ==
    [type |-> "FunctionDef", name |-> name, arguments |-> args, stmts |-> body]
ClassDefNode(name, bases, body) ==
    [type |-> "ClassDef", name |-> name, bases |-> bases, stmts |-> body]
ExpressionNode(body) == [type |-> "Expression", body |-> body]
ModuleNode(body) == [type |-> "Module", stmts |-> body]

(***************************************************************************)
(* The rewriting pass                                                      *)
(***************************************************************************)

\* CONSTANTS = frozenset(['False', 'True', 'None', 'NotImplemented',
\* 'Ellipsis']) (line 480)
PY_CONSTANTS == {"False", "True", "None", "NotImplemented", "Ellipsis"}

\* The depth at which the interpreter stops a runaway recursion
\* (RuntimeError: maximum recursion depth exceeded).
MaxRecursionDepth == 3

\* genshi.util.flatten, applied to the stack of local-name sets
flatten(locals) == UNION {locals[i] : i \in 1..Len(locals)}

\* What a visitor hands back: the new node, the scope stack it leaves, and
\* the error it raised ("none" when it returned).
Visited(node, locals) == [node |-> node, locals |-> locals, err |-> "none"]
Failed(node, locals, err) == [node |-> node, locals |-> locals, err |-> err]

RECURSIVE _process(_, _)
\* The inner function of _extract_names.  For a Tuple it calls itself on the
\* tuple once per element (line 617 passes node, not elt), so a non-empty
\* tuple parameter recurses until the interpreter gives up.
_process(node, depth) ==
    IF depth > MaxRecursionDepth THEN [names |-> {}, err |-> "RuntimeError"]
    ELSE IF node.type = "Name" THEN [names |-> {node.id}, err |-> "none"]
    ELSE IF node.type = "Tuple" /\ Len(node.elts) > 0
           THEN _process(node, depth + 1)
    ELSE [names |-> {}, err |-> "none"]

RECURSIVE _process_all(_)
\* for arg in node.args: _process(arg)
_process_all(args) ==
    IF args = <<>> THEN [names |-> {}, err |-> "none"]
    ELSE LET h == _process(Head(args), 1) IN
         IF h.err # "none" THEN h
         ELSE LET t == _process_all(Tail(args)) IN
              [names |-> h.names \cup t.names, err |-> t.err]

\* TemplateASTTransformer._extract_names(node), node being an arguments
\* node.  getattr(node, 'varargs', None) and getattr(node, 'kwargs', None)
\* read attributes an arguments node does not have (its fields are vararg and
\* kwarg), so both tests see None.
_extract_names(node) ==
    LET arguments == _process_all(node.params)
        varargs == IF "varargs" \in DOMAIN node THEN node.varargs ELSE ""
        kwargs == IF "kwargs" \in DOMAIN node THEN node.kwargs ELSE ""
    IN [names |-> arguments.names
                    \cup (IF varargs # "" THEN {varargs} ELSE {})
                    \cup (IF kwargs # "" THEN {kwargs} ELSE {}),
        err |-> arguments.err]

\* self.locals.append(s) / self.locals.pop()
push(locals, s) == Append(locals, s)
pop(locals) == SubSeq(locals, 1, Len(locals) - 1)

\* The innermost scope with one more name in it.
add(locals, name) == [locals EXCEPT ![Len(locals)] = @ \cup {name}]

\* visitName without the test that a scope has been pushed.
visitName_unguarded(node, locals) ==
    IF node.ctx \in {"Load", "AugLoad"} /\ node.id \notin flatten(locals)
      THEN Visited(CallNode(NameNode("_lookup_name", "Load"),
                            <<NameNode("__data__", "Load"), StrNode(node.id)>>),
                   locals)
    ELSE IF node.ctx \in {"Store", "AugStore"}
      THEN Visited(node, add(locals, node.id))
    ELSE Visited(node, locals)

\* TemplateASTTransformer.visitName
visitName(node, locals) ==
    IF node.ctx \in {"Load", "AugLoad"} /\ node.id \notin flatten(locals)
      THEN Visited(CallNode(NameNode("_lookup_name", "Load"),
                            <<NameNode("__data__", "Load"), StrNode(node.id)>>),
                   locals)
    ELSE IF node.ctx \in {"Store", "AugStore"} /\ Len(locals) > 1
      THEN Visited(node, [locals EXCEPT ![Len(locals)] = @ \cup {node.id}])
    ELSE Visited(node, locals)

\* One transformer class for both modes.
Transformer_expression(mode) == "Expression"

\* The transformer class chosen by _compile for a mode (lines 430-432).
Transformer(mode) == IF mode = "eval" THEN "Expression" ELSE "Template"

RECURSIVE visit(_, _, _)
RECURSIVE visitSeq(_, _, _)
RECURSIVE visitGenerators(_, _, _, _)

\* [self.visit(x) for x in value]: the nodes in order, each in the scope
\* stack its predecessor left.
visitSeq(xf, nodes, locals) ==
    IF nodes = <<>> THEN [nodes |-> <<>>, locals |-> locals, err |-> "none"]
    ELSE LET h == visit(xf, Head(nodes), locals) IN
         IF h.err # "none"
           THEN [nodes |-> <<>>, locals |-> h.locals, err |-> h.err]
         ELSE LET t == visitSeq(xf, Tail(nodes), h.locals) IN
              [nodes |-> <<h.node>> \o t.nodes, locals |-> t.locals,
               err |-> t.err]

\* The loop of visitGeneratorExp over node.generators[::-1]: gens is what is
\* left of the reversed list, done the clauses rewritten so far.
visitGenerators(xf, gens, locals, done) ==
    IF gens = <<>> THEN [nodes |-> done, locals |-> locals, err |-> "none"]
    ELSE LET generator == Head(gens)
             target == visit(xf, generator.target, push(locals, {}))
             iter == visit(xf, generator.iter, target.locals)
             ifs == visitSeq(xf, generator.ifs, iter.locals)
             gen == ComprehensionNode(target.node, iter.node, ifs.nodes)
         IN
         IF target.err # "none"
           THEN [nodes |-> done, locals |-> target.locals, err |-> target.err]
         ELSE IF iter.err # "none"
           THEN [nodes |-> done, locals |-> iter.locals, err |-> iter.err]
         ELSE IF ifs.err # "none"
           THEN [nodes |-> done, locals |-> ifs.locals, err |-> ifs.err]
         ELSE visitGenerators(xf, Tail(gens), ifs.locals, Append(done, gen))

\* reversed(seq): seq[::-1] and list.reverse()
reversed(seq) == [i \in 1..Len(seq) |-> seq[Len(seq) + 1 - i]]

\* ASTTransformer.visit with the visitors of TemplateASTTransformer and, for
\* xf = "Expression", of ExpressionASTTransformer.
visit(xf, node, locals) ==
    CASE node.type = "Name" -> visitName(node, locals)
      [] node.type \in {"Str", "Num"} -> Visited(node, locals)
      [] node.type = "Expression" ->
            LET body == visit(xf, node.body, locals) IN
            [body EXCEPT !.node = ExpressionNode(body.node)]
      [] node.type = "Module" ->
            LET body == visitSeq(xf, node.stmts, locals) IN
            [node |-> ModuleNode(body.nodes), locals |-> body.locals,
             err |-> body.err]
      [] node.type = "Expr" ->
            LET value == visit(xf, node.value, locals) IN
            [value EXCEPT !.node = ExprNode(value.node)]
      [] node.type = "Assign" ->
            LET targets == visitSeq(xf, node.targets, locals)
                value == visit(xf, node.value, targets.locals)
            IN
            IF targets.err # "none"
              THEN Failed(node, targets.locals, targets.err)
            ELSE [value EXCEPT !.node = AssignNode(targets.nodes, value.node)]
      [] node.type = "For" ->
            \* visitFor: a new scope around the cloning of target, iter, body
            LET target == visit(xf, node.target, push(locals, {}))
                iter == visit(xf, node.iter, target.locals)
                body == visitSeq(xf, node.stmts, iter.locals)
            IN
            IF target.err # "none" THEN Failed(node, locals, target.err)
            ELSE IF iter.err # "none" THEN Failed(node, locals, iter.err)
            ELSE [node |-> ForNode(target.node, iter.node, body.nodes),
                  locals |-> pop(body.locals), err |-> body.err]
      [] node.type = "Tuple" ->
            LET elts == visitSeq(xf, node.elts, locals) IN
            [node |-> TupleNode(elts.nodes, node.ctx), locals |-> elts.locals,
             err |-> elts.err]
      [] node.type = "Call" ->
            LET func == visit(xf, node.func, locals)
                args == visitSeq(xf, node.args, func.locals)
            IN
            IF func.err # "none" THEN func
            ELSE [node |-> CallNode(func.node, args.nodes),
                  locals |-> args.locals, err |-> args.err]
      [] node.type = "arguments" ->
            LET args == visitSeq(xf, node.params, locals) IN
            [node |-> ArgumentsNode(args.nodes, node.vararg, node.kwarg),
             locals |-> args.locals, err |-> args.err]
      [] node.type = "Lambda" ->
            \* visitLambda: a scope of the parameter names around the cloning
            LET names == _extract_names(node.arguments)
                args == visit(xf, node.arguments, push(locals, names.names))
                body == visit(xf, node.body, args.locals)
            IN
            IF names.err # "none" THEN Failed(node, locals, names.err)
            ELSE IF args.err # "none" THEN Failed(node, locals, args.err)
            ELSE [node |-> LambdaNode(args.node, body.node),
                  locals |-> pop(body.locals), err |-> body.err]
      [] node.type = "FunctionDef" ->
            \* visitFunctionDef: the name goes to the enclosing scope if one
            \* was pushed, then a scope of the parameter names
            LET outer == IF Len(locals) > 1 THEN add(locals, node.name)
                         ELSE locals
                names == _extract_names(node.arguments)
                args == visit(xf, node.arguments, push(outer, names.names))
                body == visitSeq(xf, node.stmts, args.locals)
            IN
            IF names.err # "none" THEN Failed(node, outer, names.err)
            ELSE IF args.err # "none" THEN Failed(node, outer, args.err)
            ELSE [node |-> FunctionDefNode(node.name, args.node, body.nodes),
                  locals |-> pop(body.locals), err |-> body.err]
      [] node.type = "ClassDef" ->
            \* visitClassDef: the same, with an empty scope
            LET outer == IF Len(locals) > 1 THEN add(locals, node.name)
                         ELSE locals
                bases == visitSeq(xf, node.bases, push(outer, {}))
                body == visitSeq(xf, node.stmts, bases.locals)
            IN
            IF bases.err # "none" THEN Failed(node, outer, bases.err)
            ELSE [node |-> ClassDefNode(node.name, bases.nodes, body.nodes),
                  locals |-> pop(body.locals), err |-> body.err]
      [] node.type \in {"ListComp", "GeneratorExp"} ->
            \* visitGeneratorExp, which is visitListComp as well
            LET n == Len(node.generators)
                gens == visitGenerators(xf, reversed(node.generators), locals,
                                        <<>>)
                elt == visit(xf, node.elt, gens.locals)
                ret == [type |-> node.type, elt |-> elt.node,
                        generators |-> reversed(gens.nodes)]
            IN
            IF gens.err # "none" THEN Failed(node, gens.locals, gens.err)
            ELSE IF elt.err # "none" THEN Failed(node, elt.locals, elt.err)
            ELSE Visited(ret, SubSeq(elt.locals, 1, Len(elt.locals) - n))
      [] node.type = "Attribute" ->
            LET value == visit(xf, node.value, locals) IN
            IF xf = "Expression"
              THEN [value EXCEPT !.node =
                      CallNode(NameNode("_lookup_attr", "Load"),
                               <<value.node, StrNode(node.attr)>>)]
            ELSE [value EXCEPT !.node =
                      AttributeNode(value.node, node.attr, node.ctx)]
      [] node.type = "Subscript" ->
            \* the slice of a Subscript of the model is always an Index
            LET ind == visit(xf, node.slice.value, locals)
                value == visit(xf, node.value, ind.locals)
                value2 == visit(xf, node.value, locals)
                ind2 == visit(xf, node.slice.value, value2.locals)
            IN
            IF xf = "Expression"
              THEN IF ind.err # "none" THEN ind
                   ELSE [value EXCEPT !.node =
                           CallNode(NameNode("_lookup_item", "Load"),
                                    <<value.node,
                                      TupleNode(<<ind.node>>, "Load")>>)]
            ELSE IF value2.err # "none" THEN value2
            ELSE [ind2 EXCEPT !.node =
                    SubscriptNode(value2.node, IndexNode(ind2.node), node.ctx)]
      [] OTHER -> Visited(node, locals)

\* _compile: the tree rewritten by the mode's transformer, which starts with
\* the scope stack [CONSTANTS]; the code generator that follows is outside
\* this file.
_compile(node, mode) == visit(Transformer(mode), node, <<PY_CONSTANTS>>)

(***************************************************************************)
(* Running the rewritten tree                                              *)
(***************************************************************************)

\* The caller's context mapping, as a value of the running code: a reference
\* to the one mutable dict, whose contents are the field data of the run.
DataRef == [tag |-> "context"]

\* A lookup classmethod bound to its policy class.
Function(name, cls) == [tag |-> "function", name |-> name, cls |-> cls]

\* A function object made by a lambda: its arguments and (rewritten) body.
Closure(node) == [tag |-> "lambda", fn |-> node]

Generator == [tag |-> "generator"]

\* LookupBase.globals(data), the globals of a run
globals(cls) ==
    [n \in {"__data__", "_lookup_name", "_lookup_attr", "_lookup_item",
            "UndefinedError"} |->
        IF n = "__data__" THEN DataRef
        ELSE IF n = "UndefinedError" THEN Builtin("UndefinedError")
        ELSE Function(n, cls)]

\* m[k] = v on a dict
Put(m, k, v) == [x \in DOMAIN m \cup {k} |-> IF x = k THEN v ELSE m[x]]

\* The state of a run: data, the context's contents; loc, the locals dict of
\* the run when it is not the context itself (alias); fast, the local
\* variables of the function being run, if any (infn).
RunState(data, loc, alias) ==
    [data |-> data, loc |-> loc, alias |-> alias, fast |-> <<>>,
     infn |-> FALSE]

\* The locals mapping of module-level code
Locals(st) == IF st.alias THEN st.data ELSE st.loc

\* A name read the rewriter left alone: LOAD_FAST / LOAD_GLOBAL in a
\* function, LOAD_NAME (locals, globals, builtins) elsewhere.
load_name(g, st, id) ==
    IF st.infn /\ id \in DOMAIN st.fast THEN Return(st.fast[id])
    ELSE IF ~st.infn /\ id \in DOMAIN Locals(st) THEN Return(Locals(st)[id])
    ELSE IF id \in DOMAIN g THEN Return(g[id])
    ELSE IF id \in DOMAIN BUILTINS \ {"Undefined"} THEN Return(BUILTINS[id])
    ELSE Raise(Exc("NameError", "load"))

\* A name written: a fast local in a function, else STORE_NAME into the
\* locals mapping.
store_name(st, id, v) ==
    IF st.infn THEN [st EXCEPT !.fast = Put(@, id, v)]
    ELSE IF st.alias THEN [st EXCEPT !.data = Put(@, id, v)]
    ELSE [st EXCEPT !.loc = Put(@, id, v)]

\* bool(v): Undefined.__nonzero__ is False
truth(v) ==
    CASE v.tag = "Undefined" -> FALSE
      [] v.tag = "None" -> FALSE
      [] v.tag = "int" -> v.n # 0
      [] v.tag \in {"list", "tuple"} -> v.elts # <<>>
      [] v = Obj("dict_empty") -> FALSE
      [] OTHER -> TRUE

\* str(v) of an Undefined: Undefined.__str__
str_undefined(v) == "undefined"

\* The characters of the strings of the model that have more than one.
Chars(s) ==
    CASE s = "thing" -> <<Str("t"), Str("h"), Str("i"), Str("n"), Str("g")>>
      [] s = "Bar" -> <<Str("B"), Str("a"), Str("r")>>
      [] OTHER -> <<Str(s)>>

\* list(v): the items iteration yields; Undefined.__iter__ is iter([])
iterate(v) ==
    CASE v.tag = "Undefined" -> Return(List(<<>>))
      [] v.tag \in {"list", "tuple"} -> Return(List(v.elts))
      [] v = Obj("items") -> Return(List(<<PyInt(1), PyInt(2), PyInt(3)>>))
      [] v \in {Obj("dict_empty"), Obj("props_empty")} -> Return(List(<<>>))
      [] v = Obj("dict_some") -> Return(List(<<Str("some"), Str("keys")>>))
      [] v = Obj("props") -> Return(List(<<Str("bad"), Str("boom")>>))
      [] v = Obj("seq") -> Return(List(<<Str("first")>>))
      [] v.tag = "str" -> Return(List(Chars(v.name)))
      [] OTHER -> Raise(Exc("TypeError", "iter"))

\* len(v)
len(v) ==
    CASE v.tag \in {"list", "tuple"} -> Return(PyInt(Len(v.elts)))
      [] v = Obj("items") -> Return(PyInt(3))
      [] v = Obj("dict_empty") -> Return(PyInt(0))
      [] v = Obj("dict_some") -> Return(PyInt(2))
      [] OTHER -> Raise(Exc("TypeError", "len"))

\* Calling something that is not a function of the running code.
call_native(f, args, st) ==
    CASE f.tag = "Undefined" -> _die(f)
      [] f.tag = "function" /\ f.name = "_lookup_name" ->
            IF Len(args) = 2 /\ args[1] = DataRef /\ args[2].tag = "str"
              THEN lookup_name(f.cls, st.data, args[2].name)
            ELSE Raise(Exc("AttributeError", "get"))
      [] f.tag = "function" /\ f.name = "_lookup_attr" ->
            lookup_attr(f.cls, args[1], args[2].name)
      [] f.tag = "function" /\ f.name = "_lookup_item" ->
            lookup_item(f.cls, args[1], args[2].elts)
      [] f.tag = "builtin" /\ f.name = "len" ->
            IF Len(args) = 1 THEN len(args[1])
            ELSE Raise(Exc("TypeError", "call"))
      [] f.tag = "method" /\ f.name = "keys" -> iterate(f.owner)
      [] OTHER -> Raise(Exc("TypeError", "call"))

\* Binding the arguments of a call to the parameters of a lambda: the
\* positional parameters, then the rest in the *vararg tuple; a **kwarg
\* parameter gets an empty dict.
bind(arguments, args) ==
    LET n == Len(arguments.params)
        names == {arguments.params[i].id : i \in 1..n}
                   \cup (IF arguments.vararg # "" THEN {arguments.vararg} ELSE {})
                   \cup (IF arguments.kwarg # "" THEN {arguments.kwarg} ELSE {})
    IN [x \in names |->
          IF \E i \in 1..n : arguments.params[i].id = x
            THEN args[CHOOSE i \in 1..n : arguments.params[i].id = x]
          ELSE IF x = arguments.vararg
            THEN Tup(SubSeq(args, n + 1, Len(args)))
          ELSE Obj("dict_empty")]

\* Whether a call with these arguments fits the parameters.
binds(arguments, args) ==
    /\ \A i \in 1..Len(arguments.params) : arguments.params[i].type = "Name"
    /\ IF arguments.vararg = "" THEN Len(args) = Len(arguments.params)
       ELSE Len(args) >= Len(arguments.params)

Ran(out, st) == [out |-> out, st |-> st]

RECURSIVE Eval(_, _, _)
RECURSIVE EvalSeq(_, _, _)
RECURSIVE EvalComp(_, _, _, _, _)
RECURSIVE EvalLoop(_, _, _, _, _, _)
RECURSIVE EvalIfs(_, _, _)

\* The values of the nodes, left to right; out is the first error, if any.
EvalSeq(nodes, g, st) ==
    IF nodes = <<>> THEN [vals |-> <<>>, out |-> Return(PyNone), st |-> st]
    ELSE LET h == Eval(Head(nodes), g, st) IN
         IF h.out.raised THEN [vals |-> <<>>, out |-> h.out, st |-> h.st]
         ELSE LET t == EvalSeq(Tail(nodes), g, h.st) IN
              [vals |-> <<h.out.val>> \o t.vals, out |-> t.out, st |-> t.st]

\* The conditions of a comprehension clause: false as soon as one is.
EvalIfs(ifs, g, st) ==
    IF ifs = <<>> THEN Ran(Return(PyInt(1)), st)
    ELSE LET h == Eval(Head(ifs), g, st) IN
         IF h.out.raised THEN h
         ELSE IF ~truth(h.out.val) THEN Ran(Return(PyInt(0)), h.st)
         ELSE EvalIfs(Tail(ifs), g, h.st)

\* Clause k of a list comprehension and those after it; acc is the list
\* built so far.
EvalComp(node, k, acc, g, st) ==
    IF k > Len(node.generators)
      THEN LET e == Eval(node.elt, g, st) IN
           IF e.out.raised THEN e
           ELSE Ran(Return(List(Append(acc, e.out.val))), e.st)
    ELSE LET it == Eval(node.generators[k].iter, g, st) IN
         IF it.out.raised THEN it
         ELSE LET items == iterate(it.out.val) IN
              IF items.raised THEN Ran(items, it.st)
              ELSE EvalLoop(node, k, items.val.elts, acc, g, it.st)

\* The loop of clause k over the items left.
EvalLoop(node, k, items, acc, g, st) ==
    IF items = <<>> THEN Ran(Return(List(acc)), st)
    ELSE LET target == node.generators[k].target
             st1 == IF target.type = "Name"
                      THEN store_name(st, target.id, Head(items))
                    ELSE st
             cond == EvalIfs(node.generators[k].ifs, g, st1)
         IN
         IF cond.out.raised THEN cond
         ELSE IF ~truth(cond.out.val)
           THEN EvalLoop(node, k, Tail(items), acc, g, cond.st)
         ELSE LET inner == EvalComp(node, k + 1, acc, g, cond.st) IN
              IF inner.out.raised THEN inner
              ELSE EvalLoop(node, k, Tail(items), inner.out.val.elts, g,
                            inner.st)

\* The value of an expression node of the rewritten tree.
Eval(node, g, st) ==
    CASE node.type = "Expression" -> Eval(node.body, g, st)
      [] node.type = "Num" -> Ran(Return(PyInt(node.n)), st)
      [] node.type = "Str" -> Ran(Return(Str(node.s)), st)
      [] node.type = "Name" -> Ran(load_name(g, st, node.id), st)
      [] node.type = "Tuple" ->
            LET elts == EvalSeq(node.elts, g, st) IN
            IF elts.out.raised THEN Ran(elts.out, elts.st)
            ELSE Ran(Return(Tup(elts.vals)), elts.st)
      [] node.type = "Attribute" ->
            LET value == Eval(node.value, g, st) IN
            IF value.out.raised THEN value
            ELSE Ran(getattr(value.out.val, node.attr), value.st)
      [] node.type = "Subscript" ->
            LET value == Eval(node.value, g, st)
                ind == Eval(node.slice.value, g, value.st)
            IN
            IF value.out.raised THEN value
            ELSE IF ind.out.raised THEN ind
            ELSE Ran(getitem(value.out.val, ind.out.val), ind.st)
      [] node.type = "Lambda" -> Ran(Return(Closure(node)), st)
      [] node.type = "ListComp" -> EvalComp(node, 1, <<>>, g, st)
      [] node.type = "GeneratorExp" ->
            \* only the first iterable is evaluated when the generator is made
            LET it == Eval(node.generators[1].iter, g, st) IN
            IF it.out.raised THEN it
            ELSE IF iterate(it.out.val).raised
              THEN Ran(iterate(it.out.val), it.st)
            ELSE Ran(Return(Generator), it.st)
      [] node.type = "Call" ->
            LET func == Eval(node.func, g, st)
                args == EvalSeq(node.args, g, func.st)
                f == func.out.val
            IN
            IF func.out.raised THEN func
            ELSE IF args.out.raised THEN Ran(args.out, args.st)
            ELSE IF f.tag = "lambda"
              THEN IF ~binds(f.fn.arguments, args.vals)
                     THEN Ran(Raise(Exc("TypeError", "call")), args.st)
                   ELSE LET body ==
                              Eval(f.fn.body, g,
                                   [args.st EXCEPT
                                      !.fast = bind(f.fn.arguments, args.vals),
                                      !.infn = TRUE])
                        IN Ran(body.out,
                               [body.st EXCEPT !.fast = args.st.fast,
                                               !.infn = args.st.infn])
            ELSE Ran(call_native(f, args.vals, args.st), args.st)
      [] OTHER -> Ran(Raise(Exc("SystemError", "node")), st)

RECURSIVE Exec(_, _, _)
RECURSIVE ExecSeq(_, _, _)
RECURSIVE ExecFor(_, _, _, _)

\* The statements in order, stopping at the first error.
ExecSeq(stmts, g, st) ==
    IF stmts = <<>> THEN Ran(Return(PyNone), st)
    ELSE LET h == Exec(Head(stmts), g, st) IN
         IF h.out.raised THEN h ELSE ExecSeq(Tail(stmts), g, h.st)

\* The body of a for statement, once per item left.
ExecFor(node, items, g, st) ==
    IF items = <<>> THEN Ran(Return(PyNone), st)
    ELSE LET st1 == IF node.target.type = "Name"
                      THEN store_name(st, node.target.id, Head(items))
                    ELSE st
             body == ExecSeq(node.stmts, g, st1)
         IN
         IF body.out.raised THEN body
         ELSE ExecFor(node, Tail(items), g, body.st)

\* One statement of the rewritten tree.
Exec(node, g, st) ==
    CASE node.type = "Assign" ->
            LET value == Eval(node.value, g, st)
                target == node.targets[1]
            IN
            IF value.out.raised THEN value
            ELSE IF target.type = "Name"
              THEN Ran(Return(PyNone),
                       store_name(value.st, target.id, value.out.val))
            ELSE Ran(Raise(Exc("SystemError", "node")), value.st)
      [] node.type = "Expr" ->
            LET value == Eval(node.value, g, st) IN
            IF value.out.raised THEN value ELSE Ran(Return(PyNone), value.st)
      [] node.type = "For" ->
            LET it == Eval(node.iter, g, st) IN
            IF it.out.raised THEN it
            ELSE IF iterate(it.out.val).raised
              THEN Ran(iterate(it.out.val), it.st)
            ELSE ExecFor(node, iterate(it.out.val).val.elts, g, it.st)
      [] OTHER -> Ran(Raise(Exc("SystemError", "node")), st)

(***************************************************************************)
(* The public units: Code.__init__, Expression.evaluate, Suite.execute     *)
(***************************************************************************)

EmptyDict == [x \in {} |-> PyNone]

\* Code.__init__ on a syntax tree: the tree is rewritten and compiled, the
\* policy class is looked up by name.  A failure of the rewriting leaves no
\* object behind.
Code(source, mode, lookup) ==
    LET tree == _compile(source, mode) IN
    IF tree.err # "none"
      THEN [state |-> "failed", mode |-> mode, ast |-> source,
            code |-> source, lookup |-> lookup, err |-> tree.err]
    ELSE [state |-> "compiled", mode |-> mode, ast |-> source,
          code |-> tree.node, lookup |-> lookup, err |-> "none"]

\* evaluate with the context itself as the locals of the run.
evaluate_shared(self, data) ==
    Eval(self.code, globals(self.lookup), RunState(data, EmptyDict, TRUE))

\* Expression.evaluate(data): eval(self.code, _globals, {'__data__': data})
evaluate(self, data) ==
    Eval(self.code, globals(self.lookup),
         RunState(data, [x \in {"__data__"} |-> DataRef], FALSE))

\* execute with a locals dict of its own, as evaluate has.
execute_private(self, data, k) ==
    Exec(self.code.stmts[k], globals(self.lookup),
         RunState(data, [x \in {"__data__"} |-> DataRef], FALSE))

\* Suite.execute(data), one top-level statement of it:
\* exec self.code in _globals, data
execute(self, data, k) ==
    Exec(self.code.stmts[k], globals(self.lookup),
         RunState(data, EmptyDict, TRUE))

(***************************************************************************)
(* The inputs                                                              *)
(***************************************************************************)

\* The longest statement block executed.
MaxStmts == 3

TextKeys == {"some", "keys", "nil", "myattr", "bad", "boom", "_name"}
IndexKeys == {PyInt(0), PyInt(-1), PyInt(5)}
KeyTuples ==
    {<<Str(k)>> : k \in TextKeys} \cup {<<i>> : i \in IndexKeys}
      \cup {<<PyInt(0), PyInt(1)>>, <<Str("some"), Str("keys")>>}
Objects == {Obj(o) : o \in ObjectNames} \cup {PyNone, Str("thing")}
NameIds == {"dict", "items", "mine", "props", "nothing", "x", "len", "None", "a"}

Contexts ==
    { EmptyDict,
      [n \in {"dict", "items", "mine", "props", "x", "a"} |->
         CASE n = "dict" -> Obj("dict_some")
           [] n = "items" -> Obj("items")
           [] n = "mine" -> Obj("mine")
           [] n = "props" -> Obj("props")
           [] n = "x" -> PyNone
           [] n = "a" -> Str("thing")],
      [n \in {"len", "dict", "mine", "props", "items"} |->
         CASE n = "len" -> Str("thing")
           [] n = "dict" -> Obj("dict_empty")
           [] n = "mine" -> Obj("old")
           [] n = "props" -> Obj("seq")
           [] n = "items" -> Obj("props_empty")] }

Load(n) == NameNode(n, "Load")
Param(n) == NameNode(n, "Param")
Store(n) == NameNode(n, "Store")
Sub(base, key) == SubscriptNode(base, IndexNode(key), "Load")
Attr(base, k) == AttributeNode(base, k, "Load")

\* Expressions: name reads, attribute and item reads of a name, and chains
NameReads == {Load(n) : n \in NameIds}
Bases == {Load(n) : n \in {"dict", "items", "mine", "props", "nothing"}}
AttrReads == {Attr(b, k) : b \in Bases, k \in TextKeys}
ItemReads ==
    {Sub(b, StrNode(k)) : b \in Bases, k \in TextKeys}
      \cup {Sub(b, NumNode(i)) : b \in Bases, i \in {0, -1, 5}}
      \cup {Sub(b, TupleNode(<<NumNode(0), NumNode(1)>>, "Load")) : b \in Bases}
Chains ==
    {Attr(Attr(Load("nothing"), "a"), "b"),
     Sub(Attr(Load("dict"), "nil"), StrNode("b")),
     Attr(Sub(Load("dict"), StrNode("nil")), "_name"),
     CallNode(Load("nothing"), <<>>),
     CallNode(Attr(Load("dict"), "nil"), <<Load("items")>>),
     CallNode(Load("len"), <<Load("items")>>),
     CallNode(Load("len"), <<Load("nothing")>>),
     Sub(Load("items"), Load("nothing")),
     Attr(CallNode(Load("len"), <<Load("mine")>>), "nil")}

Lambda1(args, vararg, kwarg, body) ==
    LambdaNode(ArgumentsNode(args, vararg, kwarg), body)

\* Lambdas, called and not: positional, variadic and tuple parameters
Lambdas ==
    {Lambda1(<<Param("a")>>, "", "", Load("a")),
     Lambda1(<<Param("a")>>, "", "", Load("x")),
     Lambda1(<<>>, "a", "", Load("a")),
     Lambda1(<<>>, "", "a", Load("a")),
     Lambda1(<<Param("x")>>, "a", "", Attr(Load("a"), "nil")),
     Lambda1(<<TupleNode(<<Store("a"), Store("x")>>, "Store")>>, "", "",
             Load("a"))}
LambdaCalls == {CallNode(f, <<Load("items")>>) : f \in Lambdas}

Comp(target, iter, ifs) == ComprehensionNode(Store(target), iter, ifs)

\* Comprehensions of one and of two clauses
Comprehensions ==
    {ListCompNode(Load("x"), <<Comp("x", Load("items"), <<>>)>>),
     ListCompNode(Load("a"), <<Comp("a", Load("items"), <<Load("a")>>)>>),
     ListCompNode(Load("x"), <<Comp("a", Load("dict"), <<>>),
                               Comp("x", Load("a"), <<>>)>>),
     ListCompNode(Load("x"), <<Comp("a", Load("items"), <<>>),
                               Comp("x", Load("items"), <<Load("a")>>)>>),
     ListCompNode(Load("nothing"), <<Comp("x", Load("items"), <<>>)>>),
     GeneratorExpNode(Load("x"), <<Comp("x", Load("items"), <<>>)>>),
     GeneratorExpNode(Load("x"), <<Comp("a", Load("nothing"), <<>>),
                                   Comp("x", Load("a"), <<>>)>>)}

ExpressionSources ==
    {ExpressionNode(e) :
        e \in NameReads \cup AttrReads \cup ItemReads \cup Chains
                \cup Lambdas \cup LambdaCalls \cup Comprehensions}

\* Top-level statements
Statements ==
    {AssignNode(<<Store("x")>>, NumNode(1)),
     AssignNode(<<Store("a")>>, Load("x")),
     AssignNode(<<Store("x")>>, Attr(Load("dict"), "some")),
     AssignNode(<<Store("a")>>, Load("nothing")),
     AssignNode(<<Store("a")>>, Sub(Load("dict"), StrNode("some"))),
     ForNode(Store("x"), Load("items"),
             <<AssignNode(<<Store("a")>>, Load("x"))>>)}

\* The threads that share a unit.
MaxThreads == 2
Threads == 1..MaxThreads

\* Statement blocks of up to MaxStmts statements
SuiteSources ==
    {ModuleNode(b) : b \in UNION {[1..n -> Statements] : n \in 1..MaxStmts}}

(***************************************************************************)
(* The state machine                                                       *)
(***************************************************************************)

VARIABLES
    unit,    \* the Expression or Suite built, if any
    data,    \* the caller's context mapping
    call,    \* the operation performed last, with its inputs
    result,  \* what it returned or raised
    pc,      \* the statement execute is at, 0 when it is not running
    trace,   \* the context after each statement of the execute under way
    thr      \* the calls threads make on the unit, each with its own context

vars == <<unit, data, call, result, pc, trace, thr>>

NoUnit ==
    [state |-> "uncompiled", mode |-> "", ast |-> [type |-> "None"],
     code |-> [type |-> "None"], lookup |-> "", err |-> "none"]

\* A thread that has made no call.
Idle ==
    [op |-> "none", pc |-> 0, data |-> EmptyDict, before |-> EmptyDict,
     ns |-> [cls |-> "", ctx |-> 0], self |-> NoUnit,
     result |-> Return(PyNone)]

Init ==
    /\ unit = NoUnit
    /\ data \in Contexts
    /\ call = [op |-> "none"]
    /\ result = Return(PyNone)
    /\ pc = 0
    /\ trace = <<>>
    /\ thr = [t \in Threads |-> Idle]

\* LenientLookup.lookup_name(data, name) or StrictLookup's
LookupName(cls, name) ==
    /\ call' = [op |-> "lookup_name", cls |-> cls, name |-> name]
    /\ result' = lookup_name(cls, data, name)
    /\ UNCHANGED <<unit, data, pc, trace, thr>>

\* lookup_attr(obj, key)
LookupAttr(cls, obj, key) ==
    /\ call' = [op |-> "lookup_attr", cls |-> cls, obj |-> obj, key |-> key]
    /\ result' = lookup_attr(cls, obj, key)
    /\ UNCHANGED <<unit, data, pc, trace, thr>>

\* lookup_item(obj, keys)
LookupItem(cls, obj, keys) ==
    /\ call' = [op |-> "lookup_item", cls |-> cls, obj |-> obj, keys |-> keys]
    /\ result' = lookup_item(cls, obj, keys)
    /\ UNCHANGED <<unit, data, pc, trace, thr>>

\* A use of a value the way a template uses one: called, tested, iterated.
CallValue(obj) ==
    /\ call' = [op |-> "call", obj |-> obj]
    /\ result' = call_native(obj, <<>>, RunState(data, EmptyDict, FALSE))
    /\ UNCHANGED <<unit, data, pc, trace, thr>>

Iterate(obj) ==
    /\ call' = [op |-> "iter", obj |-> obj]
    /\ result' = iterate(obj)
    /\ UNCHANGED <<unit, data, pc, trace, thr>>

\* The objects a lookup is made on: those of the contexts, and the Undefined
\* the last operation returned, if it returned one.
Receivers ==
    Objects \cup (IF ~result.raised /\ IsUndefined(result.val)
                    THEN {result.val} ELSE {})

NextLookup ==
    \/ \E cls \in Policies, name \in NameIds : LookupName(cls, name)
    \/ \E cls \in Policies, obj \in Receivers, key \in TextKeys :
          LookupAttr(cls, obj, key)
    \/ \E cls \in Policies, obj \in Receivers, keys \in KeyTuples :
          LookupItem(cls, obj, keys)
    \/ \E obj \in Receivers : CallValue(obj)
    \/ \E obj \in Receivers : Iterate(obj)

\* The lookup functions called on their own.
LookupSpec == Init /\ [][NextLookup]_vars

\* Expression(source, lookup=...) or Suite(source, lookup=...)
Construct(source, mode, lookup) ==
    /\ unit.state = "uncompiled"
    /\ unit' = Code(source, mode, lookup)
    /\ call' = [op |-> "construct"]
    /\ result' = IF unit'.state = "failed" THEN Raise(Exc(unit'.err, "visit"))
                 ELSE Return(PyNone)
    /\ UNCHANGED <<data, pc, trace, thr>>

\* expression.evaluate(data)
Evaluate ==
    /\ unit.state = "compiled" /\ unit.mode = "eval" /\ pc = 0
    /\ LET r == evaluate(unit, data) IN
         /\ result' = r.out
         /\ data' = r.st.data
    /\ call' = [op |-> "evaluate", before |-> data]
    /\ UNCHANGED <<unit, pc, trace, thr>>

\* suite.execute(data) is entered
ExecuteStart ==
    /\ unit.state = "compiled" /\ unit.mode = "exec" /\ pc = 0
    /\ pc' = 1
    /\ trace' = <<>>
    /\ call' = [op |-> "execute", before |-> data]
    /\ result' = Return(PyNone)
    /\ UNCHANGED <<unit, data, thr>>

\* The next top-level statement of the suite runs; an error ends the call.
ExecuteStmt ==
    /\ pc >= 1
    /\ LET r == execute(unit, data, pc) IN
         /\ result' = r.out
         /\ data' = r.st.data
         /\ trace' = IF r.out.raised THEN trace ELSE Append(trace, r.st.data)
         /\ pc' = IF r.out.raised \/ pc = Len(unit.code.stmts) THEN 0
                  ELSE pc + 1
    /\ UNCHANGED <<unit, call, thr>>

Next ==
    \/ \E source \in ExpressionSources, lookup \in Policies :
          Construct(source, "eval", lookup)
    \/ \E source \in SuiteSources, lookup \in Policies :
          Construct(source, "exec", lookup)
    \/ Evaluate
    \/ ExecuteStart
    \/ ExecuteStmt

Spec == Init /\ [][Next]_vars

\* One namespace kept for all the calls: that of the first thread.
_globals_kept(self, t) == [cls |-> self.lookup, ctx |-> 1]

\* _globals = self._globals(data) in evaluate and execute: a new globals
\* dict for the call, whose __data__ is the mapping the caller passed (the
\* context of thread t).
_globals(self, t) == [cls |-> self.lookup, ctx |-> t]

\* Thread t calls evaluate(d) or execute(d) on the shared unit, d being a
\* mapping of its own; the namespace of the call is built.
Enter(t, d) ==
    /\ unit.state = "compiled" /\ thr[t].op = "none"
    /\ thr' = [thr EXCEPT ![t] =
                 [op |-> IF unit.mode = "eval" THEN "evaluate" ELSE "execute",
                  pc |-> 1, data |-> d, before |-> d,
                  ns |-> _globals(unit, t), self |-> unit,
                  result |-> Return(PyNone)]]
    /\ UNCHANGED <<unit, data, call, result, pc, trace>>

\* Thread t runs the code in its namespace: the whole expression, or the
\* next top-level statement of the suite.
Step(t) ==
    /\ thr[t].pc >= 1
    /\ LET ref == thr[t].ns.ctx
           r == IF unit.mode = "eval" THEN evaluate(unit, thr[ref].data)
                ELSE execute(unit, thr[ref].data, thr[t].pc)
           last == unit.mode = "eval" \/ thr[t].pc = Len(unit.code.stmts)
       IN thr' = [thr EXCEPT ![ref].data = r.st.data,
                             ![t].result = r.out,
                             ![t].pc = IF r.out.raised \/ last THEN 0
                                       ELSE thr[t].pc + 1]
    /\ UNCHANGED <<unit, data, call, result, pc, trace>>

\* The units shared: blocks of two statements, and the expressions that
\* bind names or call.
SharedSuites ==
    {ModuleNode(<<s1, s2>>) :
        s1 \in Statements,
        s2 \in {AssignNode(<<Store("a")>>, Load("x")),
                AssignNode(<<Store("x")>>, Attr(Load("dict"), "some"))}}
SharedExpressions ==
    {ExpressionNode(e) : e \in Chains \cup LambdaCalls \cup Comprehensions}

NextShared ==
    \/ \E source \in SharedExpressions, lookup \in Policies :
          Construct(source, "eval", lookup)
    \/ \E source \in SharedSuites, lookup \in Policies :
          Construct(source, "exec", lookup)
    \/ \E t \in Threads, d \in Contexts : Enter(t, d)
    \/ \E t \in Threads : Step(t)

\* Statement blocks with function and class definitions and loops, one
\* inside the other; the model builds units from them and does not run them.
BodyStatements ==
    {AssignNode(<<Store("y")>>, Load("x")),
     ExprNode(Load("y")),
     ExprNode(Load("f")),
     AssignNode(<<Store("a")>>, Attr(Load("x"), "some"))}
Definitions(body) ==
    {FunctionDefNode("f", ArgumentsNode(<<Param("x")>>, "", ""), body),
     ClassDefNode("K", <<Load("dict")>>, body),
     ForNode(Store("x"), Load("items"), body)}
Inner == UNION {Definitions(<<b1, b2>>) : b1, b2 \in BodyStatements}
Nested == UNION {Definitions(<<s, b>>) : s \in Inner, b \in BodyStatements}
RewriteSuites ==
    {ModuleNode(<<s, t>>) :
        s \in Inner \cup Nested,
        t \in {ExprNode(Load("f")), ExprNode(Load("x")),
               AssignNode(<<Store("y")>>, Load("K"))}}

NextRewrite ==
    \/ \E source \in ExpressionSources, lookup \in Policies :
          Construct(source, "eval", lookup)
    \/ \E source \in RewriteSuites \cup SharedSuites, lookup \in Policies :
          Construct(source, "exec", lookup)

\* The building of units alone: parsing aside, the rewriting pass.
RewriteSpec == Init /\ [][NextRewrite]_vars

\* Several threads calling one unit, their steps interleaved.
SharedSpec == Init /\ [][NextShared]_vars

(***************************************************************************)
(* Properties                                                              *)
(***************************************************************************)

\* The attribute is absent from the object and from its type.
AttrAbsent(obj, key) ==
    /\ getattr(obj, key) = Raise(Exc("AttributeError", "getattr"))
    /\ key \notin ClassAttrs(obj)

\* The failures of item access: key not found, index out of range, wrong
\* type of key, no item access at all.
ItemFailures == {"KeyError", "IndexError", "TypeError", "AttributeError"}
ItemFailed(item) == item.raised /\ item.val.tag \in ItemFailures

\* What the policy makes of a missing key.
IsMissing(cls, r, key, owner) ==
    IF cls = "lenient"
      THEN /\ ~r.raised
           /\ IsUndefined(r.val)
           /\ r.val.name = key /\ r.val.owner = owner
           /\ str_undefined(r.val) = "undefined"
           /\ ~truth(r.val)
    ELSE /\ r.raised
         /\ IsUndefinedError(r.val)
         /\ r.val.message =
              IF owner = UNDEFINED THEN <<"\"", key, "\" not defined">>
              ELSE <<Repr(owner), " has no member named \"", key, "\"">>

\* What resolving a name must give: the context's entry, else the built-in,
\* else what the policy makes of a missing name.
NameResolved(cls, d, n, r) ==
    IF n \in DOMAIN d THEN r = Return(d[n])
    ELSE IF n \in DOMAIN BUILTINS THEN r = Return(BUILTINS[n])
    ELSE IsMissing(cls, r, n, UNDEFINED)

\* C1: lookup_name gives the context's entry when the context has the name
\* (also when the entry is None), else the built-in of that name, and only
\* when both lack it the policy's undefined(name): an Undefined (printing as
\* "undefined", false) under the lenient policy, an UndefinedError naming the
\* identifier under the strict one.  This holds of the function on every
\* context and of the evaluation of an expression that is one name.
C1_NameResolution ==
    /\ \A cls \in Policies, n \in NameIds :
          NameResolved(cls, data, n, lookup_name(cls, data, n))
    /\ (call.op = "evaluate" /\ unit.ast.body.type = "Name"
          /\ unit.ast.body.id \notin PY_CONSTANTS)
         => NameResolved(unit.lookup, call.before, unit.ast.body.id, result)

C1_Witness ==
    /\ call.op = "evaluate" /\ unit.ast.body.type = "Name"
    /\ unit.ast.body.id = "nothing" /\ unit.lookup = "lenient"
    /\ "x" \in DOMAIN data /\ data["x"] = PyNone
    /\ ~result.raised /\ IsUndefined(result.val)

\* C2 (as claimed): when the attribute is absent from the object and its
\* type, lookup_attr gives obj[key] if that item access succeeds, and what the
\* policy makes of a missing member of obj whenever the item access fails.
C2_AttrFallsBackToItem ==
    (call.op = "lookup_attr" /\ AttrAbsent(call.obj, call.key)) =>
        LET item == getitem(call.obj, Str(call.key)) IN
        IF ~item.raised THEN result = item
        ELSE ItemFailed(item) => IsMissing(call.cls, result, call.key, call.obj)

Unwrapped(keys) == IF Len(keys) = 1 THEN keys[1] ELSE Tup(keys)

Mappings ==
    {Obj("dict_empty"), Obj("dict_some"), Obj("props"), Obj("props_empty")}

\* The single textual key of a lookup_item call on a mapping.
IsMappingSubscript ==
    /\ call.op = "lookup_item" /\ call.obj \in Mappings
    /\ Len(call.keys) = 1 /\ IsBasestring(call.keys[1])

RECURSIVE LookedUp(_)
RECURSIVE LookedUpSeq(_)
\* The names a rewritten tree reads through _lookup_name(__data__, name).
LookedUp(node) ==
    CASE node.type = "Call" ->
            (IF node.func = NameNode("_lookup_name", "Load")
                  /\ Len(node.args) = 2 /\ node.args[2].type = "Str"
               THEN {node.args[2].s} ELSE {})
              \cup LookedUp(node.func) \cup LookedUpSeq(node.args)
      [] node.type = "Lambda" -> LookedUp(node.body)
      [] node.type \in {"ListComp", "GeneratorExp"} ->
            LookedUp(node.elt) \cup LookedUpSeq(node.generators)
      [] node.type = "comprehension" ->
            LookedUp(node.iter) \cup LookedUpSeq(node.ifs)
      [] node.type \in {"Attribute", "Expr"} -> LookedUp(node.value)
      [] node.type = "Subscript" ->
            LookedUp(node.value) \cup LookedUp(node.slice.value)
      [] node.type = "Tuple" -> LookedUpSeq(node.elts)
      [] node.type = "Expression" -> LookedUp(node.body)
      [] OTHER -> {}

LookedUpSeq(nodes) ==
    IF nodes = <<>> THEN {}
    ELSE LookedUp(Head(nodes)) \cup LookedUpSeq(Tail(nodes))

RECURSIVE BoundNames(_)
\* The names a parameter binds: its own, or those in a tuple parameter.
BoundNames(param) ==
    IF param.type = "Name" THEN {param.id}
    ELSE IF param.type = "Tuple"
      THEN UNION {BoundNames(param.elts[i]) : i \in 1..Len(param.elts)}
    ELSE {}

\* All the parameter names of a lambda.
ParameterNames(arguments) ==
    UNION {BoundNames(arguments.params[i]) : i \in 1..Len(arguments.params)}
      \cup (IF arguments.vararg # "" THEN {arguments.vararg} ELSE {})
      \cup (IF arguments.kwarg # "" THEN {arguments.kwarg} ELSE {})

\* The unit was built, or failed to be, from an expression that is a lambda
\* or a call of one.
HasLambda ==
    /\ unit.state # "uncompiled" /\ unit.mode = "eval"
    /\ \/ unit.ast.body.type = "Lambda"
       \/ unit.ast.body.type = "Call" /\ unit.ast.body.func.type = "Lambda"

SourceLambda ==
    IF unit.ast.body.type = "Lambda" THEN unit.ast.body ELSE unit.ast.body.func
CodeLambda ==
    IF unit.code.body.type = "Lambda" THEN unit.code.body
    ELSE unit.code.body.func

\* C6 (as claimed): the rewriting of a lambda ends, with the scope it pushed
\* popped again, and no parameter name of the lambda (positional, *vararg,
\* **kwarg, or inside a tuple parameter) is read through _lookup_name in its
\* body.
C6_ParametersAreLocal ==
    HasLambda =>
        /\ unit.state = "compiled"
        /\ _compile(unit.ast, unit.mode).locals = <<PY_CONSTANTS>>
        /\ ParameterNames(SourceLambda.arguments)
             \cap LookedUp(CodeLambda.body) = {}

\* The unit was built from an expression that is a comprehension.
HasComprehension ==
    /\ unit.state = "compiled" /\ unit.mode = "eval"
    /\ unit.ast.body.type \in {"ListComp", "GeneratorExp"}

\* The targets of the clauses before clause i.
EarlierTargets(node, i) == {node.generators[j].target.id : j \in 1..(i - 1)}

\* C7 (as claimed): in the rewritten comprehension no clause's iterable or
\* condition reads the target of an earlier clause through _lookup_name, the
\* element expression reads no clause's target through it, and the scopes
\* pushed are all gone when the comprehension is done.
C7_ClausesSeeEarlierTargets ==
    HasComprehension =>
        LET src == unit.ast.body
            new == unit.code.body
            n == Len(src.generators)
        IN
        /\ \A i \in 1..n :
              LookedUp(new.generators[i]) \cap EarlierTargets(src, i) = {}
        /\ LookedUp(new.elt) \cap EarlierTargets(src, n + 1) = {}
        /\ _compile(unit.ast, unit.mode).locals = <<PY_CONSTANTS>>

\* C8: evaluate leaves the context as it found it, whether it returns or
\* raises, also when the expression binds names of its own.
C8_EvaluateKeepsContext ==
    call.op = "evaluate" => data = call.before

C8_Witness ==
    /\ call.op = "evaluate"
    /\ unit.ast.body =
         ListCompNode(Load("x"), <<Comp("x", Load("items"), <<>>)>>)
    /\ "x" \in DOMAIN data /\ data["x"] = PyNone
    /\ result = Return(List(<<PyInt(1), PyInt(2), PyInt(3)>>))

RECURSIVE Stores(_)
\* The names a statement of the source writes.
Stores(stmt) ==
    CASE stmt.type = "Assign" ->
            {stmt.targets[i].id : i \in 1..Len(stmt.targets)}
      [] stmt.type = "For" ->
            {stmt.target.id}
              \cup UNION {Stores(stmt.stmts[i]) : i \in 1..Len(stmt.stmts)}
      [] OTHER -> {}

\* The context before statement i of the execute under way.
Before(i) == IF i = 1 THEN call.before ELSE trace[i - 1]

\* Statement j is the last one before statement i to write name n, and is a
\* top-level assignment.
LastAssignment(stmts, j, i, n) ==
    /\ j < i /\ stmts[j].type = "Assign" /\ n \in Stores(stmts[j])
    /\ \A m \in (j + 1)..(i - 1) : n \notin Stores(stmts[m])

\* C9: the statements of a suite act on the context one after the other, in
\* the order of the source.  A top-level assignment n = e leaves the value of
\* e in context[n] and changes nothing but what the statement writes; an
\* assignment n = m that comes after a top-level assignment to m stores the
\* value that assignment gave m.
C9_StatementsInOrder ==
    call.op = "execute" =>
        LET stmts == unit.ast.stmts IN
        \A i \in 1..Len(trace) :
            /\ \A n \in (DOMAIN Before(i) \cup DOMAIN trace[i]) \ Stores(stmts[i]) :
                  /\ n \in DOMAIN Before(i) /\ n \in DOMAIN trace[i]
                  /\ trace[i][n] = Before(i)[n]
            /\ stmts[i].type = "Assign" =>
                  LET n == stmts[i].targets[1].id
                      e == stmts[i].value
                  IN
                  /\ n \in DOMAIN trace[i]
                  /\ e.type = "Num" => trace[i][n] = PyInt(e.n)
                  /\ e.type = "Name" =>
                        \A j \in 1..(i - 1) :
                            LastAssignment(stmts, j, i, e.id)
                              => trace[i][n] = trace[j][e.id]

C9_Witness ==
    /\ call.op = "execute" /\ pc = 0 /\ ~result.raised
    /\ unit.ast.stmts = <<AssignNode(<<Store("x")>>, NumNode(1)),
                          AssignNode(<<Store("a")>>, Load("x"))>>
    /\ "x" \in DOMAIN call.before /\ call.before["x"] = PyNone
    /\ Len(trace) = 2 /\ trace[2]["a"] = PyInt(1)

\* The error an Undefined raises when it is used.
UndefinedUse(u) ==
    Raise([tag |-> "UndefinedError",
           message |->
             IF u.owner = UNDEFINED THEN <<"\"", u.name, "\" not defined">>
             ELSE <<Repr(u.owner), " has no member named \"", u.name, "\"">>])

\* The last operation was made on an Undefined.
OnUndefined == call.op # "none" /\ "obj" \in DOMAIN call /\ IsUndefined(call.obj)

\* What holds of every Undefined: false, empty, printed as "undefined",
\* and an error when it is called or subscripted.
UndefinedBasics(u) ==
    /\ ~truth(u)
    /\ iterate(u) = Return(List(<<>>))
    /\ str_undefined(u) = "undefined"
    /\ call_native(u, <<>>, RunState(data, EmptyDict, FALSE)) = UndefinedUse(u)
    /\ \A k \in TextKeys : getitem(u, Str(k)) = UndefinedUse(u)
    /\ call.op \in {"call", "lookup_item"} => result = UndefinedUse(u)
    /\ call.op = "iter" => result = Return(List(<<>>))

\* C10 (as claimed): an Undefined is false, iterates as empty and prints as
\* "undefined"; calling it, subscripting it or reading any attribute of it,
\* directly or through lookup_attr and lookup_item, raises the UndefinedError
\* of its own key and owner.
C10_UndefinedFailsOnUse ==
    OnUndefined =>
        /\ UndefinedBasics(call.obj)
        /\ \A k \in TextKeys : getattr(call.obj, k) = UndefinedUse(call.obj)
        /\ call.op = "lookup_attr" => result = UndefinedUse(call.obj)

\* C10, apart from the attributes of the Undefined class itself: the same
\* holds of every attribute the class does not define; an attribute of the
\* class (the slot _name) is read as on any object.
C10_UndefinedFailsOnUseOfMissing ==
    OnUndefined =>
        /\ UndefinedBasics(call.obj)
        /\ \A k \in TextKeys \ ClassAttrs(call.obj) :
              getattr(call.obj, k) = UndefinedUse(call.obj)
        /\ (call.op = "lookup_attr" /\ call.key \notin ClassAttrs(call.obj))
             => result = UndefinedUse(call.obj)
        /\ (call.op = "lookup_attr" /\ call.key \in ClassAttrs(call.obj))
             => result = Return(Str(call.obj.name))

C10_Witness ==
    /\ OnUndefined /\ call.op = "lookup_attr" /\ call.key = "nil"
    /\ call.obj = Undefined("some", Obj("dict_empty"))
    /\ result.raised /\ IsUndefinedError(result.val)
    /\ result.val.message = <<"{}", " has no member named \"", "some", "\"">>

\* A call of one of the lookup functions of the run's globals.
LookupCall(fn, args) == CallNode(NameNode(fn, "Load"), args)

RECURSIVE Rewritten(_, _, _, _)
\* new is src rewritten by the rule of the mode: attribute and
\* subscript reads turned into _lookup_attr and _lookup_item calls in
\* expression mode and kept in statement mode, their children rewritten in
\* either; a name read outside every pushed scope (scoped false) turned into
\* a _lookup_name call unless it is one of the constants.
Rewritten(src, new, mode, scoped) ==
    LET Seq2(a, b, sc) ==
            /\ Len(a) = Len(b)
            /\ \A i \in 1..Len(a) : Rewritten(a[i], b[i], mode, sc)
        byname == LookupCall("_lookup_name",
                             <<NameNode("__data__", "Load"), StrNode(src.id)>>)
    IN
    CASE src.type = "Name" ->
            IF src.ctx # "Load" \/ src.id \in PY_CONSTANTS THEN new = src
            ELSE IF scoped THEN new = src \/ new = byname
            ELSE new = byname
      [] src.type = "Attribute" ->
            IF mode = "eval"
              THEN /\ new.type = "Call" /\ Len(new.args) = 2
                   /\ new.func = NameNode("_lookup_attr", "Load")
                   /\ new.args[2] = StrNode(src.attr)
                   /\ Rewritten(src.value, new.args[1], mode, scoped)
            ELSE /\ new.type = "Attribute"
                 /\ new.attr = src.attr /\ new.ctx = src.ctx
                 /\ Rewritten(src.value, new.value, mode, scoped)
      [] src.type = "Subscript" ->
            IF mode = "eval"
              THEN /\ new.type = "Call" /\ Len(new.args) = 2
                   /\ new.func = NameNode("_lookup_item", "Load")
                   /\ new.args[2].type = "Tuple"
                   /\ Len(new.args[2].elts) = 1
                   /\ Rewritten(src.slice.value, new.args[2].elts[1], mode,
                                scoped)
                   /\ Rewritten(src.value, new.args[1], mode, scoped)
            ELSE /\ new.type = "Subscript" /\ new.ctx = src.ctx
                 /\ new.slice.type = "Index"
                 /\ Rewritten(src.slice.value, new.slice.value, mode, scoped)
                 /\ Rewritten(src.value, new.value, mode, scoped)
      [] src.type = "Call" ->
            /\ new.type = "Call"
            /\ Rewritten(src.func, new.func, mode, scoped)
            /\ Seq2(src.args, new.args, scoped)
      [] src.type = "Tuple" ->
            new.type = "Tuple" /\ Seq2(src.elts, new.elts, scoped)
      [] src.type = "Lambda" ->
            /\ new.type = "Lambda" /\ new.arguments = src.arguments
            /\ Rewritten(src.body, new.body, mode, TRUE)
      [] src.type \in {"ListComp", "GeneratorExp"} ->
            /\ new.type = src.type
            /\ Rewritten(src.elt, new.elt, mode, TRUE)
            /\ Seq2(src.generators, new.generators, TRUE)
      [] src.type = "comprehension" ->
            /\ new.type = "comprehension" /\ new.target = src.target
            /\ Rewritten(src.iter, new.iter, mode, TRUE)
            /\ Seq2(src.ifs, new.ifs, TRUE)
      [] src.type = "Expression" ->
            new.type = "Expression"
              /\ Rewritten(src.body, new.body, mode, scoped)
      [] src.type = "Module" ->
            new.type = "Module" /\ Seq2(src.stmts, new.stmts, scoped)
      [] src.type = "Assign" ->
            /\ new.type = "Assign" /\ new.targets = src.targets
            /\ Rewritten(src.value, new.value, mode, scoped)
      [] src.type = "Expr" ->
            new.type = "Expr" /\ Rewritten(src.value, new.value, mode, scoped)
      [] src.type = "For" ->
            /\ new.type = "For" /\ new.target = src.target
            /\ Rewritten(src.iter, new.iter, mode, TRUE)
            /\ Seq2(src.stmts, new.stmts, TRUE)
      [] OTHER -> new = src

\* The statement is n = b.k or n = b[k], b being an entry of the context d.
IsNativeRead(stmt, d) ==
    /\ stmt.type = "Assign" /\ stmt.value.type \in {"Attribute", "Subscript"}
    /\ stmt.value.value.type = "Name" /\ stmt.value.value.id \in DOMAIN d
    /\ stmt.value.type = "Subscript" => stmt.value.slice.value.type = "Str"

\* What Python's own b.k or b[k] gives for that statement.
NativeRead(stmt, d) ==
    IF stmt.value.type = "Attribute"
      THEN getattr(d[stmt.value.value.id], stmt.value.attr)
    ELSE getitem(d[stmt.value.value.id], Str(stmt.value.slice.value.s))

\* C11: the unit's code is its tree rewritten by the rule of its mode:
\* attribute and index-subscript reads are _lookup_attr / _lookup_item calls
\* on the rewritten base and keys in expression mode and keep their shape in
\* statement mode, and names read outside every scope are _lookup_name calls
\* in both.  A statement n = b.k or n = b[k] on a context entry b therefore
\* gives what Python's own access gives: its value, or its error when the
\* attribute or item is missing, never an Undefined or UndefinedError of the
\* policy.
C11_RewriteByMode ==
    /\ unit.state = "compiled"
         => Rewritten(unit.ast, unit.code, unit.mode, FALSE)
    /\ call.op = "execute" =>
         /\ \A i \in 1..Len(trace) :
               IsNativeRead(unit.ast.stmts[i], Before(i)) =>
                   Return(trace[i][unit.ast.stmts[i].targets[1].id])
                     = NativeRead(unit.ast.stmts[i], Before(i))
         /\ (pc = 0 /\ result.raised) =>
               LET stmt == unit.ast.stmts[Len(trace) + 1] IN
               IsNativeRead(stmt, data) => result = NativeRead(stmt, data)

C11_Witness ==
    /\ call.op = "execute" /\ pc = 0 /\ result.raised
    /\ unit.lookup = "lenient" /\ Len(trace) = 1
    /\ unit.ast.stmts[2] = AssignNode(<<Store("x")>>, Attr(Load("dict"), "some"))
    /\ unit.code.stmts[2].value =
         AttributeNode(LookupCall("_lookup_name",
                                  <<NameNode("__data__", "Load"),
                                    StrNode("dict")>>), "some", "Load")
    /\ "dict" \in DOMAIN data /\ data["dict"] = Obj("dict_some")
    /\ result.val.tag = "AttributeError"
    /\ lookup_attr("lenient", data["dict"], "some") = Return(Str("thing"))

RECURSIVE RunAlone(_, _, _, _)
\* What statements k..last of a suite leave when nothing else runs: the
\* outcome of the last one run and the context.
RunAlone(self, d, k, last) ==
    IF k > last THEN [out |-> Return(PyNone), data |-> d]
    ELSE LET r == execute(self, d, k) IN
         IF r.out.raised \/ k = last THEN [out |-> r.out, data |-> r.st.data]
         ELSE RunAlone(self, r.st.data, k + 1, last)

\* What the call of a thread has done so far, had it run alone on the
\* context it was given: nothing when pc is 1, the statements before pc
\* while it runs, the whole call when it is over.
Alone(c) ==
    IF c.pc = 1 THEN [out |-> Return(PyNone), data |-> c.before]
    ELSE IF c.self.mode = "eval"
      THEN LET r == evaluate(c.self, c.before) IN
           [out |-> r.out, data |-> r.st.data]
    ELSE IF c.pc = 0
      THEN RunAlone(c.self, c.before, 1, Len(c.self.code.stmts))
    ELSE RunAlone(c.self, c.before, 1, c.pc - 1)

\* C12: the unit a thread called is still the unit, unchanged; the namespace
\* of each call is its own, holding the caller's context; and whatever the
\* interleaving of the threads, the result of each call and the contents of
\* its context are at every moment those of the same call run alone.
C12_SharedUnit ==
    \A t \in Threads :
        IF thr[t].op = "none" THEN thr[t] = Idle
        ELSE /\ thr[t].self = unit
             /\ thr[t].ns.ctx = t /\ thr[t].ns.cls = unit.lookup
             /\ thr[t].result = Alone(thr[t]).out
             /\ thr[t].data = Alone(thr[t]).data

C12_Witness ==
    /\ unit.mode = "exec"
    /\ unit.ast.stmts = <<AssignNode(<<Store("x")>>, NumNode(1)),
                          AssignNode(<<Store("a")>>, Load("x"))>>
    /\ thr[1].pc = 2 /\ thr[2].pc = 2
    /\ thr[1].before = EmptyDict /\ "a" \in DOMAIN thr[2].before
    /\ thr[1].data = [n \in {"x"} |-> PyInt(1)]
    /\ thr[2].data["x"] = PyInt(1) /\ thr[2].data["a"] = Str("thing")

\* The unit with the policy cls chosen at construction instead of its own.
WithLookup(cls) == Code(unit.ast, unit.mode, cls)

RECURSIVE visits(_, _, _)
\* Every call of visit made while node is visited with the scope stack
\* locals, node's own included: the node, the stack when the call is entered
\* (before), the stack when it returns (after), the node returned and the
\* error raised, if any.  The children are taken in the order their visitor
\* takes them, each with the stack its predecessors left.
visits(xf, node, locals) ==
    LET r == visit(xf, node, locals)
        own == [node |-> node, before |-> locals, after |-> r.locals,
                new |-> r.node, err |-> r.err]
        enter(nodes, l, i) == visitSeq(xf, SubSeq(nodes, 1, i - 1), l)
        chain(nodes, l) ==
            UNION {visits(xf, nodes[i], enter(nodes, l, i).locals) :
                     i \in {j \in 1..Len(nodes) : enter(nodes, l, j).err = "none"}}
        outer == IF Len(locals) > 1 THEN add(locals, node.name) ELSE locals
        clause(g) == <<g.target, g.iter>> \o g.ifs
        gens == reversed(node.generators)
        \* the stack when the i-th clause visited has been entered
        pushed(i) ==
            visitGenerators(xf, SubSeq(gens, 1, i - 1), locals, <<>>)
    IN
    {own} \cup
    CASE node.type = "Expression" ->
            chain(<<node.body>>, locals)
      [] node.type = "Module" -> chain(node.stmts, locals)
      [] node.type \in {"Expr", "Attribute"} -> chain(<<node.value>>, locals)
      [] node.type = "Assign" -> chain(node.targets \o <<node.value>>, locals)
      [] node.type = "For" ->
            chain(<<node.target, node.iter>> \o node.stmts, push(locals, {}))
      [] node.type = "Tuple" -> chain(node.elts, locals)
      [] node.type = "Call" -> chain(<<node.func>> \o node.args, locals)
      [] node.type = "arguments" -> chain(node.params, locals)
      [] node.type = "Lambda" ->
            IF _extract_names(node.arguments).err # "none" THEN {}
            ELSE chain(<<node.arguments, node.body>>,
                       push(locals, _extract_names(node.arguments).names))
      [] node.type = "FunctionDef" ->
            IF _extract_names(node.arguments).err # "none" THEN {}
            ELSE chain(<<node.arguments>> \o node.stmts,
                       push(outer, _extract_names(node.arguments).names))
      [] node.type = "ClassDef" ->
            chain(node.bases \o node.stmts, push(outer, {}))
      [] node.type \in {"ListComp", "GeneratorExp"} ->
            UNION {IF pushed(i).err # "none" THEN {}
                   ELSE chain(clause(gens[i]), push(pushed(i).locals, {})) :
                     i \in 1..Len(gens)}
              \cup (IF pushed(Len(gens) + 1).err # "none" THEN {}
                    ELSE chain(<<node.elt>>, pushed(Len(gens) + 1).locals))
      [] node.type = "Subscript" ->
            IF xf = "Expression"
              THEN chain(<<node.slice.value, node.value>>, locals)
            ELSE chain(<<node.value, node.slice.value>>, locals)
      [] OTHER -> {}

\* The calls of visit the building of the unit made and that returned.
Returned ==
    IF unit.state = "uncompiled" THEN {}
    ELSE {c \in visits(Transformer(unit.mode), unit.ast, <<PY_CONSTANTS>>) :
            c.err = "none"}

ScopeNodes ==
    {"FunctionDef", "Lambda", "ClassDef", "For", "ListComp", "GeneratorExp"}

\* The bottom entry is the constant set before and after every call, and a
\* name read with nothing above it is looked up in the context.
BottomIsConstants(c) ==
    /\ Len(c.before) >= 1 /\ Len(c.after) >= 1
    /\ c.before[1] = PY_CONSTANTS /\ c.after[1] = PY_CONSTANTS
    /\ (c.node.type = "Name" /\ c.node.ctx = "Load" /\ Len(c.before) = 1
          /\ c.node.id \notin PY_CONSTANTS)
         => c.new = LookupCall("_lookup_name",
                               <<NameNode("__data__", "Load"),
                                 StrNode(c.node.id)>>)

\* A name written is registered in the innermost entry, and only when a
\* scope has been pushed; no other name node changes the stack.
RegisteredInnermost(c) ==
    c.node.type = "Name" =>
        IF c.node.ctx = "Store" /\ Len(c.before) > 1
          THEN c.after = add(c.before, c.node.id)
        ELSE c.after = c.before

\* C14 (as claimed): at every step of the rewriting the bottom entry of the
\* scope stack is the constant set, names are registered in the innermost
\* entry and only above the bottom, and the visit of a function, lambda,
\* class, for loop or comprehension leaves the stack exactly as it found it.
C14_ScopeStack ==
    \A c \in Returned :
        /\ BottomIsConstants(c)
        /\ RegisteredInnermost(c)
        /\ c.node.type \in ScopeNodes => c.after = c.before

\* C14 (amended): the same, but the visit of a function or class definition
\* found inside a pushed scope leaves the definition's name in the innermost
\* entry of the stack it found, which is otherwise as before; at top level,
\* and for lambdas, for loops and comprehensions anywhere, the stack is left
\* exactly as found.
C14_ScopeStackButDefinedName ==
    \A c \in Returned :
        /\ BottomIsConstants(c)
        /\ RegisteredInnermost(c)
        /\ c.node.type \in ScopeNodes =>
              /\ Len(c.after) = Len(c.before)
              /\ IF c.node.type \in {"FunctionDef", "ClassDef"}
                      /\ Len(c.before) > 1
                   THEN c.after = add(c.before, c.node.name)
                 ELSE c.after = c.before

C14_Witness ==
    /\ unit.state = "compiled" /\ unit.mode = "exec"
    /\ \E c \in Returned :
          /\ c.node.type = "FunctionDef" /\ c.node.name = "f"
          /\ c.before = <<PY_CONSTANTS, {"x"}>>
          /\ c.after = <<PY_CONSTANTS, {"x", "f"}>>
    /\ \E c \in Returned :
          /\ c.node = NameNode("y", "Store") /\ Len(c.before) = 3
          /\ c.after = add(c.before, "y")

====
